---- MODULE Spec2Model ----
(***************************************************************************)
(* The navigation state machine of the file manager (src/src/app.rs) over  *)
(* the directory listing of src/src/items.rs.                              *)
(*                                                                         *)
(* A path (PathBuf) is the sequence of its components; an absolute path    *)
(* starts with the root component "/", the empty path is <<>>.  An         *)
(* Option<T> is a sequence of length at most one: <<>> is None, <<x>> is   *)
(* Some(x).  Vec indices are 0-based as in the source: v[i] of the source  *)
(* is v[i + 1] here.  A usize is held as the integer congruent to it       *)
(* modulo 2^64 that lies in -2^63 .. 2^63 - 1: the small values are        *)
(* themselves, and usize::MAX = 2^64 - 1, the value 0 - 1 wraps to, is -1. *)
(***************************************************************************)
EXTENDS Integers, Sequences, FiniteSets

VARIABLES
    app,       \* the App of run(): the four panes, the cursor, pwd, grandparent_path
    current,   \* env::current_dir(): the process working directory
    pc,        \* "running", "returned" (run returned Ok) or "panicked"
    result,    \* the Option<PathBuf> run() returned
    key,       \* the key the loop handled last ("none" before the first)
    strayed,   \* history: a Right key was handled on a focus that is no directory
    overflow_checks  \* the build checks integer overflow (debug) or wraps (release)

vars == <<app, current, pc, result, key, strayed, overflow_checks>>

----------------------------------------------------------------------------
(* Paths: std::path::Path as the source uses it.                           *)

Root == <<"/">>

Join(p, name) == p \o <<name>>

\* Path::parent: the path without its final component; None for "/" and "".
parent(p) == IF p = <<>> \/ p = Root THEN <<>> ELSE <<SubSeq(p, 1, Len(p) - 1)>>

\* Path::is_absolute.
is_absolute(p) == p # <<>> /\ p[1] = "/"

----------------------------------------------------------------------------
(* The filesystem the session runs on.  It does not change during a        *)
(* session.  Directories list their children in a fixed order.             *)

Home == <<"/", "home">>
Proj == <<"/", "home", "proj">>

DirNode(names)  == [kind |-> "dir",  ok |-> TRUE,  names |-> names, lines |-> <<>>]
FileNode(lines) == [kind |-> "file", ok |-> TRUE,  names |-> <<>>,  lines |-> lines]
Unreadable      == [kind |-> "file", ok |-> FALSE, names |-> <<>>,  lines |-> <<>>]
Absent          == [kind |-> "none", ok |-> FALSE, names |-> <<>>,  lines |-> <<>>]

\* The node at an absolute, normalised path.  ok = FALSE: listing (a
\* directory) or reading as UTF-8 text (a file) fails.
Tree(p) ==
    CASE p = Root                 -> DirNode(<<"home">>)
      [] p = Home                 -> DirNode(<<"proj">>)
      [] p = Proj                 -> DirNode(<<"src", "README", "void", "locked", "list", "nil">>)
      [] p = Join(Proj, "src")    -> DirNode(<<"main", "blob">>)
      [] p = Join(Join(Proj, "src"), "main") -> FileNode(<< <<"fn">> >>)
      [] p = Join(Join(Proj, "src"), "blob") -> Unreadable
      [] p = Join(Proj, "README") -> FileNode(<< <<"a">>, <<"b">>, <<"c">> >>)
      [] p = Join(Proj, "void")   -> DirNode(<<>>)
      [] p = Join(Proj, "locked") -> [kind |-> "dir", ok |-> FALSE, names |-> <<"key">>, lines |-> <<>>]
      [] p = Join(Proj, "list")   -> FileNode(<< <<"void", "..", "list">>, <<"nil">> >>)
      [] p = Join(Proj, "nil")    -> FileNode(<<>>)
      [] OTHER                    -> Absent

\* The directories a session can be started in.
StartDirs ==
    {Root, Home, Proj, Join(Proj, "src"), Join(Proj, "void"), Join(Proj, "locked")}

\* Path resolution by the operating system: the components of rest walked
\* from the absolute path acc; ".." needs a directory to leave.  <<>> when
\* the walk fails.
RECURSIVE Walk(_, _)
Walk(acc, rest) ==
    IF rest = <<>> THEN acc
    ELSE IF Head(rest) = ".."
         THEN IF Tree(acc).kind = "dir"
              THEN Walk(IF acc = Root THEN Root ELSE SubSeq(acc, 1, Len(acc) - 1), Tail(rest))
              ELSE <<>>
         ELSE Walk(Join(acc, Head(rest)), Tail(rest))

\* The absolute path a path names: a relative path is taken from the
\* working directory cwd; the empty path names nothing.
Resolve(cwd, p) ==
    IF p = <<>> THEN <<>>
    ELSE IF is_absolute(p) THEN Walk(Root, Tail(p))
    ELSE Walk(cwd, p)

NodeAt(cwd, p) == IF Resolve(cwd, p) = <<>> THEN Absent ELSE Tree(Resolve(cwd, p))

\* Path::is_dir of an entry's path.
path_is_dir(cwd, p) == NodeAt(cwd, p).kind = "dir"

\* fs::read_dir(path): Ok iff the path names a listable directory.
fs_read_dir_ok(cwd, p) == NodeAt(cwd, p).kind = "dir" /\ NodeAt(cwd, p).ok

\* fs::read_to_string(path): Ok iff the path names a readable text file.
fs_read_to_string_ok(cwd, p) == NodeAt(cwd, p).kind = "file" /\ NodeAt(cwd, p).ok

\* str::lines of the text read, each line as the path PathBuf::from gives.
fs_lines(cwd, p) == NodeAt(cwd, p).lines

----------------------------------------------------------------------------
(* Item and State.                                                         *)

Item(path, state) == [path |-> path, state |-> state]

Item_default == Item(<<>>, "None")

is_dir(item) == item.state \in {"Dir", "RelationDir"}

\* Item::change_state: sets the state of the item itself and returns a clone.
change_state(item, state) == [item EXCEPT !.state = state]

\* items::read_dir.
read_dir(cwd, p) ==
    IF fs_read_dir_ok(cwd, p)
    THEN [n \in 1..Len(NodeAt(cwd, p).names) |->
            LET filepath == Join(p, NodeAt(cwd, p).names[n])
            IN  Item(filepath, IF path_is_dir(cwd, filepath) THEN "Dir" ELSE "File")]
    ELSE <<Item_default>>

\* App::generate_items.
generate_items(cwd, p) == IF p = <<>> THEN <<Item_default>> ELSE read_dir(cwd, p)

\* Item::generate_child_items.
generate_child_items(cwd, item) ==
    IF is_dir(item) THEN generate_items(cwd, item.path)
    ELSE IF fs_read_to_string_ok(cwd, item.path)
         THEN [n \in 1..Len(fs_lines(cwd, item.path)) |->
                 Item(fs_lines(cwd, item.path)[n], "Content")]
         ELSE <<Item_default>>

\* App::get_parent_path.
get_parent_path(p) == IF parent(p) = <<>> THEN <<>> ELSE parent(p)[1]

----------------------------------------------------------------------------
(* StatefulList<T>: state is ListState's selected index (Option<usize>).   *)

StatefulList(state, items) == [state |-> state, items |-> items]

with_items(items) == StatefulList(<<0>>, items)

with_items_select(items, index) == StatefulList(<<index>>, items)

\* The outcome of a StatefulList method: the list after it, or a panic.
ListOk(list)    == [panic |-> FALSE, list |-> list]
ListPanic(list) == [panic |-> TRUE,  list |-> list]

\* a >= b on usize: by the representatives, a value of the upper half
\* (negative here) being the greater of two that lie in different halves.
usize_ge(a, b) == IF (a < 0) = (b < 0) THEN a >= b ELSE a < 0

\* a - b on usize where overflow wraps: the representative of a - b.
wrapping_sub(a, b) == a - b

\* next with the wrap test off by one (i >= len instead of i >= len - 1).
next_wraps_late(checks, list) ==
    ListOk([list EXCEPT !.state =
            IF list.state = <<>> THEN <<0>>
            ELSE IF usize_ge(list.state[1], Len(list.items)) THEN <<0>>
            ELSE <<list.state[1] + 1>>])

\* StatefulList::next.  With a cursor set, items.len() - 1 is evaluated: on
\* an empty list the subtraction panics in a build that checks overflow
\* (checks) and wraps to usize::MAX in one that does not, where the cursor
\* then moves on by one outside the empty list.
next(checks, list) ==
    IF list.state = <<>> THEN ListOk([list EXCEPT !.state = <<0>>])
    ELSE IF Len(list.items) = 0 /\ checks THEN ListPanic(list)
    ELSE ListOk([list EXCEPT !.state =
            IF usize_ge(list.state[1], wrapping_sub(Len(list.items), 1)) THEN <<0>>
            ELSE <<list.state[1] + 1>>])

\* StatefulList::previous.  items.len() - 1 is evaluated with the cursor at
\* index 0 only: on an empty list it panics in a build that checks overflow
\* and selects usize::MAX in one that does not.
previous(checks, list) ==
    IF list.state = <<>> THEN ListOk([list EXCEPT !.state = <<0>>])
    ELSE IF list.state[1] = 0
         THEN IF Len(list.items) = 0 /\ checks THEN ListPanic(list)
              ELSE ListOk([list EXCEPT !.state = <<wrapping_sub(Len(list.items), 1)>>])
         ELSE ListOk([list EXCEPT !.state = <<list.state[1] - 1>>])

----------------------------------------------------------------------------
(* App.                                                                    *)

App(child_items, items, parent_items, grandparent_items, pwd, grandparent_path) ==
    [child_items |-> child_items, items |-> items, parent_items |-> parent_items,
     grandparent_items |-> grandparent_items, pwd |-> pwd,
     grandparent_path |-> grandparent_path]

\* The outcome of an App method: Ok with the App after it, or a panic (the
\* App is lost; the record keeps the one the method was called on).
Ok(a)    == [panic |-> FALSE, app |-> a]
Panic(a) == [panic |-> TRUE,  app |-> a]

\* The 0-based index of the first item whose path is p, 0 when there is none.
IndexOfPath(items, p) ==
    LET S == {n \in 1..Len(items) : items[n].path = p}
    IN  IF S = {} THEN 0 ELSE (CHOOSE n \in S : \A m \in S : n <= m) - 1

\* App::get_index_parent.
get_index_parent(a) == IndexOfPath(a.parent_items, a.pwd)

\* App::get_index_grandparent: pwd.parent().unwrap() is evaluated for each
\* item compared, so it panics iff there is an item and pwd has no parent.
get_index_grandparent_panics(a) == Len(a.grandparent_items) > 0 /\ parent(a.pwd) = <<>>

get_index_grandparent(a) == IndexOfPath(a.grandparent_items, parent(a.pwd)[1])

\* App::update_child_items.
update_child_items(cwd, a) ==
    LET i == IF a.items.state = <<>> THEN 0 ELSE a.items.state[1]
    IN  IF usize_ge(i, Len(a.items.items)) THEN Panic(a)
        ELSE Ok([a EXCEPT !.child_items = generate_child_items(cwd, a.items.items[i + 1])])

\* App::move_content.
move_content(a, selected_item) ==
    Ok(App(<<Item_default>>,
           with_items(a.child_items),
           a.items.items,
           a.parent_items,
           selected_item.path,
           get_parent_path(a.pwd)))

\* move_child that keeps the cursor index of the pane it leaves instead of
\* selecting index 0 of the new current pane.
move_child_keeps_cursor(cwd, a) ==
    IF a.items.state = <<>> \/ (a.items.state # <<>> /\ usize_ge(a.items.state[1], Len(a.items.items)))
    THEN Panic(a)
    ELSE LET i == a.items.state[1]
             selected_item == change_state(a.items.items[i + 1], "RelationDir")
             b == [a EXCEPT !.items.items[i + 1] = selected_item]
         IN  IF Len(b.child_items) = 0 THEN Panic(a)
             ELSE Ok(App(generate_child_items(cwd, b.child_items[1]),
                         with_items_select(b.child_items, i),
                         b.items.items,
                         b.parent_items,
                         selected_item.path,
                         get_parent_path(b.pwd)))

\* move_child that stores the old pwd itself as grandparent_path.
move_child_gp_is_pwd(cwd, a) ==
    IF a.items.state = <<>> \/ (a.items.state # <<>> /\ usize_ge(a.items.state[1], Len(a.items.items)))
    THEN Panic(a)
    ELSE LET i == a.items.state[1]
             selected_item == change_state(a.items.items[i + 1], "RelationDir")
             b == [a EXCEPT !.items.items[i + 1] = selected_item]
         IN  IF Len(b.child_items) = 0 THEN Panic(a)
             ELSE Ok(App(generate_child_items(cwd, b.child_items[1]),
                         with_items(b.child_items),
                         b.items.items,
                         b.parent_items,
                         selected_item.path,
                         b.pwd))

\* move_child with change_state marking only the clone it returns: the
\* focused item of self.items keeps its state.
move_child_marks_clone(cwd, a) ==
    IF a.items.state = <<>> \/ (a.items.state # <<>> /\ usize_ge(a.items.state[1], Len(a.items.items)))
    THEN Panic(a)
    ELSE LET i == a.items.state[1]
             selected_item == change_state(a.items.items[i + 1], "RelationDir")
         IN  IF Len(a.child_items) = 0 THEN Panic(a)
             ELSE Ok(App(generate_child_items(cwd, a.child_items[1]),
                         with_items(a.child_items),
                         a.items.items,
                         a.parent_items,
                         selected_item.path,
                         get_parent_path(a.pwd)))

\* move_child that takes the new current pane from the parent pane instead
\* of the child preview.
move_child_wrong_pane(cwd, a) ==
    IF a.items.state = <<>> \/ (a.items.state # <<>> /\ usize_ge(a.items.state[1], Len(a.items.items)))
    THEN Panic(a)
    ELSE LET i == a.items.state[1]
             selected_item == change_state(a.items.items[i + 1], "RelationDir")
             b == [a EXCEPT !.items.items[i + 1] = selected_item]
         IN  IF Len(b.child_items) = 0 THEN Panic(a)
             ELSE Ok(App(generate_child_items(cwd, b.child_items[1]),
                         with_items(b.parent_items),
                         b.items.items,
                         b.parent_items,
                         selected_item.path,
                         get_parent_path(b.pwd)))

\* App::move_child.  change_state sets the state of the focused item of
\* self.items in place, so the item carries RelationDir into the new parent
\* pane, and the clone tested by is_dir is a RelationDir.
move_child(cwd, a) ==
    IF a.items.state = <<>> \/ (a.items.state # <<>> /\ usize_ge(a.items.state[1], Len(a.items.items)))
    THEN Panic(a)
    ELSE LET i == a.items.state[1]
             selected_item == change_state(a.items.items[i + 1], "RelationDir")
             b == [a EXCEPT !.items.items[i + 1] = selected_item]
         IN  IF is_dir(selected_item)
             THEN IF Len(b.child_items) = 0 THEN Panic(a)
                  ELSE Ok(App(generate_child_items(cwd, b.child_items[1]),
                              with_items(b.child_items),
                              b.items.items,
                              b.parent_items,
                              selected_item.path,
                              get_parent_path(b.pwd)))
             ELSE move_content(b, selected_item)

\* move_down that also lists pwd again for the current pane.
move_down_relists(checks, cwd, a) ==
    IF next(checks, a.items).panic THEN Panic(a)
    ELSE update_child_items(cwd,
            [a EXCEPT !.items = StatefulList(next(checks, a.items).list.state,
                                             generate_items(cwd, a.pwd))])

\* App::move_down.
move_down(checks, cwd, a) ==
    IF next(checks, a.items).panic THEN Panic(a)
    ELSE update_child_items(cwd, [a EXCEPT !.items = next(checks, a.items).list])

\* App::move_up.
move_up(checks, cwd, a) ==
    IF previous(checks, a.items).panic THEN Panic(a)
    ELSE update_child_items(cwd, [a EXCEPT !.items = previous(checks, a.items).list])

\* move_parent that selects index 0 instead of get_index_parent().
move_parent_selects_first(cwd, a) ==
    IF parent(a.pwd) = <<>> THEN Ok(a)
    ELSE LET grandparent_path == get_parent_path(a.grandparent_path)
         IN  Ok(App(a.items.items,
                    with_items(a.parent_items),
                    a.grandparent_items,
                    generate_items(cwd, grandparent_path),
                    parent(a.pwd)[1],
                    grandparent_path))

\* move_parent without the return at a path that has no parent: the window
\* shifts with get_parent_path's empty path instead.
move_parent_no_root_check(cwd, a) ==
    LET grandparent_path == get_parent_path(a.grandparent_path)
    IN  Ok(App(a.items.items,
               with_items_select(a.parent_items, get_index_parent(a)),
               a.grandparent_items,
               generate_items(cwd, grandparent_path),
               get_parent_path(a.pwd),
               grandparent_path))

\* App::move_parent.
move_parent(cwd, a) ==
    IF parent(a.pwd) = <<>> THEN Ok(a)
    ELSE LET grandparent_path == get_parent_path(a.grandparent_path)
         IN  Ok(App(a.items.items,
                    with_items_select(a.parent_items, get_index_parent(a)),
                    a.grandparent_items,
                    generate_items(cwd, grandparent_path),
                    parent(a.pwd)[1],
                    grandparent_path))

\* The App a panicking App::new leaves behind: none; a blank one stands for it.
App_blank(cwd) == App(<<>>, StatefulList(<<>>, <<>>), <<>>, <<>>, cwd, <<>>)

\* App::new, with cwd the working directory env::current_dir() gives.
App_new(cwd) ==
    LET pwd   == cwd
        items == read_dir(cwd, pwd)
    IN  IF Len(items) = 0 THEN Panic(App_blank(cwd))
        ELSE
        LET child_path       == IF is_dir(items[1]) THEN items[1].path ELSE <<>>
            child_items      == generate_items(cwd, child_path)
            parent_path      == get_parent_path(pwd)
            grandparent_path == get_parent_path(parent_path)
            a0 == App(child_items, with_items(items),
                      generate_items(cwd, parent_path),
                      generate_items(cwd, grandparent_path),
                      pwd, grandparent_path)
            i  == get_index_parent(a0)
        IN  IF i >= Len(a0.parent_items) THEN Panic(App_blank(cwd))
            ELSE
            LET a1 == [a0 EXCEPT !.parent_items[i + 1] = change_state(@, "RelationDir")]
            IN  IF get_index_grandparent_panics(a1) THEN Panic(App_blank(cwd))
                ELSE LET j == get_index_grandparent(a1)
                     IN  IF j >= Len(a1.grandparent_items) THEN Panic(App_blank(cwd))
                         ELSE Ok([a1 EXCEPT !.grandparent_items[j + 1] =
                                        change_state(@, "RelationDir")])

----------------------------------------------------------------------------
(* run(): the loop reads one key and dispatches on it.                     *)

\* The state after a handler: its App, or the panic that ends the session.
Handled(r, k) ==
    /\ app' = r.app
    /\ pc' = IF r.panic THEN "panicked" ELSE "running"
    /\ key' = k
    /\ UNCHANGED <<current, result, overflow_checks>>

\* The focused item of the current pane (items[selected]), as an Option.
focus(a) ==
    IF a.items.state # <<>> /\ ~usize_ge(a.items.state[1], Len(a.items.items))
    THEN <<a.items.items[a.items.state[1] + 1]>> ELSE <<>>

\* The focus is an entry of kind Dir or RelationDir whose path is a directory.
FocusIsDirectory(cwd, a) ==
    focus(a) # <<>> /\ is_dir(focus(a)[1]) /\ path_is_dir(cwd, focus(a)[1].path)

\* KeyCode::Char('j') | KeyCode::Down
Down ==
    /\ pc = "running"
    /\ Handled(move_down(overflow_checks, current, app), "Down")
    /\ UNCHANGED strayed

\* KeyCode::Char('k') | KeyCode::Up
Up ==
    /\ pc = "running"
    /\ Handled(move_up(overflow_checks, current, app), "Up")
    /\ UNCHANGED strayed

\* KeyCode::Char('h') | KeyCode::Left
Leave == pc = "running" /\ Handled(move_parent(current, app), "Left") /\ UNCHANGED strayed

\* KeyCode::Char('l') | KeyCode::Right
Enter ==
    /\ pc = "running"
    /\ Handled(move_child(current, app), "Right")
    /\ strayed' = (strayed \/ ~FocusIsDirectory(current, app))

\* KeyCode::Backspace | KeyCode::Esc | Ctrl-C: return Ok(current)
Cancel ==
    /\ pc = "running"
    /\ pc' = "returned"
    /\ result' = <<current>>
    /\ key' = "Cancel"
    /\ UNCHANGED <<app, current, strayed, overflow_checks>>

\* KeyCode::Enter: return Ok(app.pwd)
Confirm ==
    /\ pc = "running"
    /\ pc' = "returned"
    /\ result' = <<app.pwd>>
    /\ key' = "Confirm"
    /\ UNCHANGED <<app, current, strayed, overflow_checks>>

\* Any other key: _ => {}
Other ==
    /\ pc = "running"
    /\ key' = "other"
    /\ UNCHANGED <<app, current, pc, result, strayed, overflow_checks>>

\* app(): App::new()? in the working directory, then run().
Init ==
    /\ current \in StartDirs
    /\ app = App_new(current).app
    /\ pc = IF App_new(current).panic THEN "panicked" ELSE "running"
    /\ result = <<>>
    /\ key = "none"
    /\ strayed = FALSE
    /\ overflow_checks \in BOOLEAN

Next == Down \/ Up \/ Leave \/ Enter \/ Cancel \/ Confirm \/ Other

Spec == Init /\ [][Next]_vars

----------------------------------------------------------------------------
(* StatefulList::next on its own: every non-empty list of at most          *)
(* MaxListLen items, the cursor at every index, next() applied repeatedly. *)

MaxListLen == 5

ListItems == {Item_default, Item(<<"a">>, "Content")}

ListsUnderTest ==
    {StatefulList(<<i>>, items) :
        <<i, items>> \in {x \in (0..(MaxListLen - 1)) \X
                                UNION {[1..n -> ListItems] : n \in 1..MaxListLen} :
                            x[1] < Len(x[2])}}

InitList ==
    /\ app \in {App(<<>>, l, <<>>, <<>>, <<>>, <<>>) : l \in ListsUnderTest}
    /\ current = Root
    /\ pc = "list"
    /\ result = <<>>
    /\ key = "none"
    /\ strayed = FALSE
    /\ overflow_checks \in BOOLEAN

ListNext ==
    /\ pc = "list"
    /\ ~next(overflow_checks, app.items).panic
    /\ app' = [app EXCEPT !.items = next(overflow_checks, app.items).list]
    /\ key' = "next"
    /\ UNCHANGED <<current, pc, result, strayed, overflow_checks>>

SpecList == InitList /\ [][ListNext]_vars

\* n applications of next(): the list after them, or the panic of the first
\* application that panics.
RECURSIVE next_times(_, _, _)
next_times(checks, list, n) ==
    IF n = 0 THEN ListOk(list)
    ELSE IF next(checks, list).panic THEN ListPanic(list)
    ELSE next_times(checks, next(checks, list).list, n - 1)

----------------------------------------------------------------------------
(* The claims.                                                             *)

PathsOf(items) == {items[n].path : n \in 1..Len(items)}

\* The paths of the immediate children of p in the filesystem.
ChildPaths(cwd, p) ==
    IF path_is_dir(cwd, p)
    THEN {Join(p, NodeAt(cwd, p).names[n]) : n \in 1..Len(NodeAt(cwd, p).names)}
    ELSE {}

\* C1 as claimed: in every state of a running session the entries of the
\* current pane have exactly the paths of the immediate children of pwd.
C1_CurrentListsChildrenOfPwd ==
    pc = "running" => PathsOf(app.items.items) = ChildPaths(current, app.pwd)

\* C1 amended: as long as every Right key was handled on a focused entry of
\* kind Dir or RelationDir whose path is a directory, the entries of the
\* current pane have exactly the paths that listing pwd gives: the paths of
\* its immediate children, or the single Empty placeholder when pwd cannot
\* be listed.
C1_CurrentIsListingOfPwd ==
    (pc = "running" /\ ~strayed) =>
        /\ Len(app.items.items) = Len(read_dir(current, app.pwd))
        /\ \A n \in 1..Len(app.items.items) :
              app.items.items[n].path = read_dir(current, app.pwd)[n].path
        /\ fs_read_dir_ok(current, app.pwd) =>
              PathsOf(app.items.items) = ChildPaths(current, app.pwd)

\* C1 witness: back in the project directory after entering src and leaving
\* it, the current pane lists the six children.
C1_Witness ==
    /\ pc = "running" /\ ~strayed /\ key = "Left"
    /\ app.pwd = Proj /\ current = Proj
    /\ Len(app.items.items) = Len(Tree(Proj).names)
    /\ \E n \in 1..Len(app.items.items) : app.items.items[n].state = "RelationDir"

\* C2 as claimed: in every state of a running session the cursor of the
\* current pane is Some(i) with 0 <= i < len(current).
C2_CursorInRange ==
    pc = "running" =>
        /\ app.items.state # <<>>
        /\ 0 <= app.items.state[1]
        /\ app.items.state[1] < Len(app.items.items)

\* C3 as claimed: in every state of a running session each of the four
\* panes is a non-empty sequence.
C3_PanesNonEmpty ==
    pc = "running" =>
        /\ Len(app.child_items) > 0
        /\ Len(app.items.items) > 0
        /\ Len(app.parent_items) > 0
        /\ Len(app.grandparent_items) > 0

\* C4 as claimed: no Down, Up, Enter or Leave aborts the session: after
\* any key the session is running or has returned, never panicked.
C4_NoTransitionAborts ==
    key \in {"Down", "Up", "Left", "Right"} => pc # "panicked"

\* C5 as claimed: from every state whose focused entry is a directory,
\* Enter and then Leave give a state with the original pwd and the cursor
\* on the entry that was entered.
C5_LeaveAfterEnterIsIdentity ==
    (pc = "running" /\ FocusIsDirectory(current, app)) =>
        /\ ~move_child(current, app).panic
        /\ LET entered == move_child(current, app).app
               left    == move_parent(current, entered)
           IN  /\ ~left.panic
               /\ left.app.pwd = app.pwd
               /\ left.app.items.state = app.items.state

\* C6: a Left key handled when pwd has no parent changes nothing: pwd, the
\* current pane and its cursor, the parent and grandparent panes, the child
\* preview and grandparent_path are as before, and the session runs on.
C6_LeaveAtRootIsNoOp ==
    [][(pc = "running" /\ key' = "Left" /\ parent(app.pwd) = <<>>)
          => (app' = app /\ pc' = "running")]_vars

\* C6 witness: a Left key was handled at the filesystem root, whose current
\* pane is a listing.
C6_Witness ==
    /\ pc = "running" /\ key = "Left"
    /\ app.pwd = Root /\ parent(app.pwd) = <<>>
    /\ app.items.items = read_dir(current, Root)

\* C7: on a non-empty list of length len with the cursor at i < len, next()
\* moves the cursor to (i + 1) mod len without failing, and len
\* applications of next() bring it back to i.
C7_NextWrapsAround ==
    pc = "list" =>
        LET list == app.items
            len  == Len(list.items)
            i    == list.state[1]
        IN  /\ ~next(overflow_checks, list).panic
            /\ next(overflow_checks, list).list.state = <<(i + 1) % len>>
            /\ next(overflow_checks, list).list.items = list.items
            /\ ~next_times(overflow_checks, list, len).panic
            /\ next_times(overflow_checks, list, len).list.state = <<i>>

\* C7 witness: next() has wrapped the cursor of a list of MaxListLen items
\* back to index 0.
C7_Witness ==
    /\ pc = "list" /\ key = "next"
    /\ Len(app.items.items) = MaxListLen
    /\ app.items.state = <<0>>

\* C8 as claimed: a session that has handled a key and is no longer running
\* has ended on Confirm with the live pwd or on Cancel with the working
\* directory captured at startup, and has yielded exactly that one path.
C8_EndsOnlyOnConfirmOrCancel ==
    (key # "none" /\ pc # "running") =>
        /\ pc = "returned"
        /\ \/ key = "Confirm" /\ result = <<app.pwd>>
           \/ key = "Cancel" /\ result = <<current>>

\* C9 as claimed: Enter on a focused entry of kind Content never aborts; it
\* yields a new navigation state.
C9_EnterOnContentNeverAborts ==
    (pc = "running" /\ focus(app) # <<>> /\ focus(app)[1].state = "Content") =>
        ~move_child(current, app).panic

\* C10 as claimed: after Enter on a focused directory from pwd P the new pwd
\* is the focused entry's path and the new parent pane holds an entry whose
\* path is P and whose kind is RelationDir.
C10_ParentPaneHoldsOldPwd ==
    [][(pc = "running" /\ key' = "Right" /\ pc' = "running"
            /\ FocusIsDirectory(current, app))
          => /\ app'.pwd = focus(app)[1].path
             /\ \E n \in 1..Len(app'.parent_items) :
                   app'.parent_items[n] = Item(app.pwd, "RelationDir")]_vars

\* C10 amended: after Enter on a focused entry of kind Dir or RelationDir
\* the new pwd is the focused entry's path and the new parent pane is the
\* old current pane with the entered entry, whose path is the new pwd, of
\* kind RelationDir.
C10_ParentPaneHoldsEnteredEntry ==
    [][(pc = "running" /\ key' = "Right" /\ pc' = "running"
            /\ focus(app) # <<>> /\ is_dir(focus(app)[1]))
          => /\ app'.pwd = focus(app)[1].path
             /\ Len(app'.parent_items) = Len(app.items.items)
             /\ app'.parent_items[app.items.state[1] + 1] =
                   Item(app'.pwd, "RelationDir")
             /\ \A n \in 1..Len(app'.parent_items) :
                   app'.parent_items[n].path = app.items.items[n].path]_vars

\* C10 witness: src was entered from the project directory; the parent pane
\* holds src as a RelationDir.
C10_Witness ==
    /\ pc = "running" /\ key = "Right" /\ ~strayed
    /\ app.pwd = Join(Proj, "src")
    /\ app.grandparent_path = Home
    /\ app.parent_items[1] = Item(Join(Proj, "src"), "RelationDir")

\* C11 as claimed: for every startup directory App::new returns an initial
\* state, with pwd that directory and the cursor at index 0, without error
\* or panic.
C11_StartupAlwaysSucceeds ==
    key = "none" =>
        /\ pc = "running"
        /\ app.pwd = current
        /\ app.items.state = <<0>>

\* A Right key was handled to completion on a focus of kind Dir or
\* RelationDir (unprimed: the state before it, primed: the state after).
EnterCompletes ==
    /\ pc = "running" /\ key' = "Right" /\ pc' = "running"
    /\ focus(app) # <<>> /\ is_dir(focus(app)[1])

\* C12 as claimed: Enter on a focused directory gives pwd = the focused
\* entry's path, current = the old child preview with the cursor at 0,
\* parent = the old current sequence, grandparent = the old parent sequence.
C12_EnterShiftsWindowDown ==
    [][EnterCompletes =>
          /\ app'.pwd = focus(app)[1].path
          /\ app'.items = with_items(app.child_items)
          /\ app'.parent_items = app.items.items
          /\ app'.grandparent_items = app.parent_items]_vars

\* C12 amended: as claimed, except that the new parent pane is the old
\* current sequence with the kind of the entered entry set to RelationDir.
C12_EnterShiftsWindowDownMarked ==
    [][EnterCompletes =>
          /\ app'.pwd = focus(app)[1].path
          /\ app'.items = with_items(app.child_items)
          /\ app'.parent_items =
                [app.items.items EXCEPT ![app.items.state[1] + 1].state = "RelationDir"]
          /\ app'.grandparent_items = app.parent_items]_vars

\* C12 witness: the unlistable directory locked, the fourth entry (kind Dir)
\* of the project directory, was entered.
C12_Witness ==
    /\ pc = "running" /\ key = "Right" /\ current = Proj
    /\ app.pwd = Join(Proj, "locked")
    /\ app.items = with_items(<<Item_default>>)
    /\ Len(app.parent_items) = Len(Tree(Proj).names)
    /\ app.parent_items[4] = Item(Join(Proj, "locked"), "RelationDir")

\* C13 as claimed: after Enter on a focused directory the new
\* grandparent_path is the pwd of the state before the Enter.
C13_GrandparentPathIsOldPwd ==
    [][EnterCompletes => app'.grandparent_path = app.pwd]_vars

\* C13 amended: after Enter on a focused directory the new grandparent_path
\* is the parent of the pwd of the state before the Enter (the empty path
\* when that pwd has no parent): the directory two levels above the new pwd.
C13_GrandparentPathIsParentOfOldPwd ==
    [][EnterCompletes =>
          /\ app'.grandparent_path =
                (IF parent(app.pwd) = <<>> THEN <<>> ELSE parent(app.pwd)[1])
          /\ app'.grandparent_path # app.pwd \/ app.pwd = <<>>]_vars

\* C13 witness: the project directory was entered from /home; the
\* grandparent path is /.
C13_Witness ==
    /\ pc = "running" /\ key = "Right" /\ current = Home
    /\ app.pwd = Proj
    /\ app.grandparent_path = Root

\* C14: a Left key handled when pwd has a parent gives pwd = the parent of
\* the old pwd, current = the old parent sequence with the cursor at the
\* first index whose path is the old pwd (0 if none), parent = the old
\* grandparent, child preview = the old current sequence, grandparent_path =
\* the parent of the old grandparent_path (the empty path if none) and
\* grandparent = the listing of that path (the Empty placeholder for the
\* empty path or a failed listing).
C14_LeaveShiftsWindowUp ==
    [][(pc = "running" /\ key' = "Left" /\ parent(app.pwd) # <<>>) =>
          /\ pc' = "running"
          /\ app'.pwd = parent(app.pwd)[1]
          /\ app'.items.items = app.parent_items
          /\ LET hits == {n \in 1..Len(app.parent_items) :
                             app.parent_items[n].path = app.pwd}
             IN  /\ hits = {} => app'.items.state = <<0>>
                 /\ hits # {} =>
                       /\ app'.items.state # <<>>
                       /\ app'.items.state[1] + 1 \in hits
                       /\ \A m \in hits : app'.items.state[1] + 1 <= m
          /\ app'.parent_items = app.grandparent_items
          /\ app'.child_items = app.items.items
          /\ app'.grandparent_path =
                (IF parent(app.grandparent_path) = <<>> THEN <<>>
                 ELSE parent(app.grandparent_path)[1])
          /\ app'.grandparent_items =
                (IF app'.grandparent_path = <<>> THEN <<Item_default>>
                 ELSE read_dir(current, app'.grandparent_path))]_vars

\* C14 witness: a session started in locked has left it; the cursor is on
\* locked, the fourth entry of the project directory.
C14_Witness ==
    /\ pc = "running" /\ key = "Left" /\ current = Join(Proj, "locked")
    /\ app.pwd = Proj
    /\ app.items.state = <<3>>
    /\ app.child_items = <<Item_default>>
    /\ app.grandparent_path = Root

\* The preview the filesystem gives for an entry: the listing of its
\* children (kinds Dir and File) if its path is a listable directory, one
\* Content entry per line if it is a readable file, one Empty placeholder
\* otherwise.
PreviewOf(cwd, item) ==
    IF fs_read_dir_ok(cwd, item.path)
    THEN [n \in 1..Len(NodeAt(cwd, item.path).names) |->
            Item(Join(item.path, NodeAt(cwd, item.path).names[n]),
                 IF NodeAt(cwd, Join(item.path, NodeAt(cwd, item.path).names[n])).kind = "dir"
                 THEN "Dir" ELSE "File")]
    ELSE IF fs_read_to_string_ok(cwd, item.path)
         THEN [n \in 1..Len(NodeAt(cwd, item.path).lines) |->
                 Item(NodeAt(cwd, item.path).lines[n], "Content")]
         ELSE <<Item(<<>>, "None")>>

\* C15 as claimed: in every state of a running session, the initial one
\* included, the child preview is the preview of the focused entry (paths
\* and, but for RelationDir marks on listed directories, kinds).
C15_ChildPreviewIsPreviewOfFocus ==
    (pc = "running" /\ focus(app) # <<>>) =>
        LET want == PreviewOf(current, focus(app)[1])
        IN  /\ Len(app.child_items) = Len(want)
            /\ \A n \in 1..Len(want) :
                  /\ app.child_items[n].path = want[n].path
                  /\ \/ app.child_items[n].state = want[n].state
                     \/ want[n].state = "Dir" /\ app.child_items[n].state = "RelationDir"

\* C16 as claimed: the parent pane's entry at pwd and the grandparent pane's
\* entry at pwd's parent are RelationDir, and no other entry of any pane is.
C16_RelationDirTracksPwd ==
    pc = "running" =>
        /\ \A n \in 1..Len(app.parent_items) :
              app.parent_items[n].state = "RelationDir"
                 <=> app.parent_items[n].path = app.pwd
        /\ \A n \in 1..Len(app.grandparent_items) :
              app.grandparent_items[n].state = "RelationDir"
                 <=> (parent(app.pwd) # <<>>
                        /\ app.grandparent_items[n].path = parent(app.pwd)[1])
        /\ \A n \in 1..Len(app.items.items) : app.items.items[n].state # "RelationDir"
        /\ \A n \in 1..Len(app.child_items) : app.child_items[n].state # "RelationDir"

\* C17 as claimed: a Right key handled to completion on a focus of kind
\* File, Content or Empty gives what move_content builds: the child preview
\* is exactly one Empty placeholder, current is the old child preview with
\* the cursor at 0, parent has the entries of the old current, grandparent
\* is the old parent and pwd is the focused entry's path.
C17_NonDirectoryTakesMoveContent ==
    [][(pc = "running" /\ key' = "Right" /\ pc' = "running"
            /\ focus(app) # <<>> /\ ~is_dir(focus(app)[1]))
          => /\ app'.child_items = <<Item_default>>
             /\ app'.items = with_items(app.child_items)
             /\ PathsOf(app'.parent_items) = PathsOf(app.items.items)
             /\ app'.grandparent_items = app.parent_items
             /\ app'.pwd = focus(app)[1].path]_vars

\* C18: a Down or Up key handled to completion leaves pwd,
\* grandparent_path, the parent pane, the grandparent pane and the entries
\* of the current pane (paths and kinds) as they were.
C18_CursorKeysKeepThePanes ==
    [][(pc = "running" /\ key' \in {"Down", "Up"} /\ pc' = "running")
          => /\ app'.pwd = app.pwd
             /\ app'.grandparent_path = app.grandparent_path
             /\ app'.parent_items = app.parent_items
             /\ app'.grandparent_items = app.grandparent_items
             /\ app'.items.items = app.items.items]_vars

\* C18 witness: Down in the project directory after src was entered and
\* left: the cursor is on README, src is still marked in the current pane.
C18_Witness ==
    /\ pc = "running" /\ key = "Down" /\ current = Proj
    /\ app.pwd = Proj
    /\ app.items.state = <<1>>
    /\ app.items.items[1].state = "RelationDir"
    /\ Len(app.child_items) = Len(Tree(Join(Proj, "README")).lines)

\* C19 as claimed: after a Down or Up key the child preview is the preview
\* of the newly focused entry: the listing of a directory, the lines of a
\* readable file as Content entries in order, one Empty placeholder for a
\* directory that cannot be listed or a file that cannot be read.
C19_CursorKeysRegeneratePreview ==
    [][(pc = "running" /\ key' \in {"Down", "Up"} /\ pc' = "running")
          => /\ focus(app') # <<>>
             /\ app'.child_items = PreviewOf(current, focus(app')[1])]_vars

\* C20 as claimed: in every state of a running session pwd is a directory
\* of the filesystem, and so is the path Confirm returns.
C20_ConfirmYieldsDirectory ==
    /\ pc = "running" => path_is_dir(current, app.pwd)
    /\ (pc = "returned" /\ key = "Confirm") =>
          (result # <<>> /\ path_is_dir(current, result[1]))

\* C20 amended: as long as every Right key was handled on a focused entry
\* of kind Dir or RelationDir whose path is a directory, pwd is a directory
\* of the filesystem and so is the path Confirm returns.
C20_ConfirmYieldsDirectoryUnlessStrayed ==
    ~strayed =>
        /\ pc = "running" => path_is_dir(current, app.pwd)
        /\ (pc = "returned" /\ key = "Confirm") =>
              (result = <<app.pwd>> /\ path_is_dir(current, result[1]))

\* C20 witness: a session started in /home entered proj and src and was
\* confirmed there.
C20_Witness ==
    /\ pc = "returned" /\ key = "Confirm" /\ ~strayed /\ current = Home
    /\ result = <<Join(Proj, "src")>>

====
